---- MODULE Spec2Model ----
(***************************************************************************)
(* Model of package grlimit (src/grlimit/grlimit.go): Gate, a one-shot     *)
(* bounded-concurrency admission gate built on a buffered channel used as  *)
(* a counting semaphore, an atomic closed flag and a buffered error        *)
(* channel.                                                                *)
(*                                                                         *)
(* Every goroutine is a process with a program counter; one action is one  *)
(* atomic operation on the shared state (atomic.Bool Load/Swap, a channel  *)
(* send/receive/close, a select, a go statement), so every interleaving    *)
(* the Go scheduler can produce is a behaviour of Spec.                    *)
(***************************************************************************)
EXTENDS Integers, Sequences, FiniteSets

\* ---------------------------------------------------------------- bounds
MaxCap == 2          \* largest capacity requested from NewGate
MaxCalls == 2        \* number of Submit calls over the gate's lifetime
MaxClosers == 2      \* number of CloseAndWait calls
DurationBits == 5    \* width of time.Duration (int64), scaled down
MaxBackoffCalls == 3 \* number of calls of Backoff.Next and Backoff.Reset

\* ------------------------------------------------------ program constants
defaultErrBuffer == 10

ErrNone == "none"                        \* the call has not returned yet
ErrNil == "nil"                          \* Submit returned nil
ErrShutdown == "ErrShutdown"
ErrNilJobSubmitted == "ErrNilJobSubmitted"
ErrCtx == "ctx.Err"                      \* ctx.Err() of the caller's context

Calls == 1..MaxCalls
Closers == 1..MaxClosers
CapRequests == (-1)..MaxCap              \* arguments given to NewGate
Jobs == {"nilJob", "job"}                \* jb == nil, or a Job value
Outcomes == {"ok", "err", "panic"}       \* how jb.Run(ctx) ends

VARIABLES
    closed,      \* g.closed (atomic.Bool)
    sem,         \* len(g.sem): tokens in the semaphore channel
    semCap,      \* cap(g.sem)
    capReq,      \* the argument NewGate was called with
    pre,         \* jobs that failed and finished before the calls followed
    errs,        \* buffered content of g.errs (ids of the failed calls)
    closeCount,  \* number of close(g.errs) executed
    crashed,     \* an unrecovered panic happened (close of closed channel)
    sentOnClosed,\* a worker executed a send on the closed g.errs
    spc,         \* position of each Submit call
    job,         \* jb of each Submit call
    ctxDone,     \* ctx.Done() of each Submit call's context is closed
    ret,         \* value returned by each Submit call
    afterCW,     \* the Submit call began after a CloseAndWait had returned
    rolled,      \* Submit calls that gave their slot back (line 59)
    wpc,         \* position of the worker goroutine of each call
    outcome,     \* how the worker of each call ended
    cpc,         \* position of each CloseAndWait call
    ci,          \* loop variable i of each CloseAndWait call
    drainer,     \* CloseAndWait calls whose Swap returned false
    consumer,    \* position of the goroutine ranging over g.Errors()
    got,         \* calls whose error the consumer has received
    current,     \* Backoff.current
    max,         \* Backoff.max
    initial,     \* the argument `initial` New was called with
    sleep,       \* the value the last call of Backoff.Next returned
    bpc,         \* how the last Backoff call ended
    hist         \* the Backoff methods called so far, in order

vars == <<closed, sem, semCap, capReq, pre, errs, closeCount, crashed,
          sentOnClosed, spc, job, ctxDone, ret, afterCW, rolled, wpc,
          outcome, cpc, ci, drainer, consumer, got, current, max, initial,
          sleep, bpc, hist>>

gateVars == <<closed, sem, semCap, capReq, pre, errs, closeCount, crashed,
              sentOnClosed>>
submitVars == <<spc, job, ctxDone, ret, afterCW, rolled>>
backoffVars == <<current, max, initial, sleep, bpc, hist>>
workerVars == <<wpc, outcome>>
closerVars == <<cpc, ci, drainer>>

\* ------------------------------------------------------------- accessors
Capacity == semCap
InUse == sem
Available == Capacity - InUse
errsClosed == closeCount > 0

\* (the coercion of cap <= 0 left out)
NewGateCapNoClamp(c) == c

\* NewGate: cap <= 0 becomes 1; the semaphore channel has that capacity.
NewGateCap(c) == IF c <= 0 THEN 1 ELSE c

\* workers that were spawned and have not yet executed the deferred <-g.sem
Running == {c \in Calls : wpc[c] \in {"check", "run", "send", "release"}}
\* Submit calls between `g.sem <- struct{}{}` and their return
Admitting == {c \in Calls : spc[c] \in {"recheck", "rollback", "spawn"}}

\* no Backoff has been created
NoBackoff ==
    /\ current = 0
    /\ max = 0
    /\ initial = 0
    /\ sleep = 0
    /\ bpc = "none"
    /\ hist = <<>>

\* the Gate that NewGate(c) returns
NewGate(n) ==
    /\ closed = FALSE
    /\ sem = 0
    /\ capReq = n
    /\ semCap = NewGateCap(n)
    /\ pre = 0
    /\ errs = <<>>
    /\ closeCount = 0
    /\ crashed = FALSE
    /\ sentOnClosed = FALSE
    /\ spc = [c \in Calls |-> "idle"]
    /\ job = [c \in Calls |-> "none"]
    /\ ctxDone = [c \in Calls |-> FALSE]
    /\ ret = [c \in Calls |-> ErrNone]
    /\ afterCW = [c \in Calls |-> FALSE]
    /\ wpc = [c \in Calls |-> "none"]
    /\ outcome = [c \in Calls |-> "none"]
    /\ cpc = [k \in Closers |-> "idle"]
    /\ ci = [k \in Closers |-> 0]
    /\ drainer = {}
    /\ rolled = {}
    /\ consumer = "ranging"
    /\ got = {}

Init ==
    /\ \E n \in CapRequests : NewGate(n)
    /\ NoBackoff

\* no call of the model has been made yet
Fresh ==
    /\ \A c \in Calls : spc[c] = "idle"
    /\ \A k \in Closers : cpc[k] = "idle"
    /\ pre = 0

\* The history before the calls the model follows: defaultErrBuffer jobs
\* were submitted, admitted, returned an error and released their slot, one
\* after the other, while nobody read g.Errors().  Each of them went through
\* Submit and worker as below; what they leave behind is their errors in
\* the buffer of g.errs (written 0) and nothing else.
EarlierJobsFailed ==
    /\ Fresh
    /\ pre' = defaultErrBuffer
    /\ errs' = [i \in 1..defaultErrBuffer |-> 0]
    /\ UNCHANGED <<closed, sem, semCap, capReq, closeCount, crashed,
                   sentOnClosed, submitVars, workerVars, closerVars,
                   consumer, got, backoffVars>>

\* ---------------------------------------------------------------- Submit
\* A goroutine calls g.Submit(ctx, jb); ctx may already be cancelled.
SubmitBegin(c, jb, fired) ==
    /\ spc[c] = "idle"
    /\ \A d \in Calls : d < c => spc[d] # "idle"
    /\ spc' = [spc EXCEPT ![c] = "nilcheck"]
    /\ job' = [job EXCEPT ![c] = jb]
    /\ ctxDone' = [ctxDone EXCEPT ![c] = fired]
    /\ afterCW' = [afterCW EXCEPT ![c] = \E k \in Closers : cpc[k] = "done"]
    /\ UNCHANGED <<ret, rolled, gateVars, workerVars, closerVars, consumer, got,
                   backoffVars>>

\* (the nil test left out: a nil job goes on to admission)
SubmitNilCheckMissing(c) ==
    /\ spc[c] = "nilcheck"
    /\ spc' = [spc EXCEPT ![c] = "load"]
    /\ UNCHANGED <<job, ctxDone, ret, afterCW, rolled, gateVars, workerVars,
                   closerVars, consumer, got, backoffVars>>

\* if jb == nil { return ErrNilJobSubmitted }
SubmitNilCheck(c) ==
    /\ spc[c] = "nilcheck"
    /\ IF job[c] = "nilJob"
          THEN /\ spc' = [spc EXCEPT ![c] = "done"]
               /\ ret' = [ret EXCEPT ![c] = ErrNilJobSubmitted]
          ELSE /\ spc' = [spc EXCEPT ![c] = "load"]
               /\ UNCHANGED ret
    /\ UNCHANGED <<job, ctxDone, afterCW, rolled, gateVars, workerVars,
                   closerVars, consumer, got, backoffVars>>

\* (the entry test of the closed flag left out)
SubmitLoadMissing(c) ==
    /\ spc[c] = "load"
    /\ spc' = [spc EXCEPT ![c] = "select"]
    /\ UNCHANGED <<job, ctxDone, ret, afterCW, rolled, gateVars, workerVars,
                   closerVars, consumer, got, backoffVars>>

\* if g.closed.Load() { return ErrShutdown }
SubmitLoad(c) ==
    /\ spc[c] = "load"
    /\ IF closed
          THEN /\ spc' = [spc EXCEPT ![c] = "done"]
               /\ ret' = [ret EXCEPT ![c] = ErrShutdown]
          ELSE /\ spc' = [spc EXCEPT ![c] = "select"]
               /\ UNCHANGED ret
    /\ UNCHANGED <<job, ctxDone, afterCW, rolled, gateVars, workerVars,
                   closerVars, consumer, got, backoffVars>>

\* a send on g.sem can proceed: the buffer has room
SemCanSendLeak == TRUE
SemCanSend == sem < semCap

\* (the worker started right after the slot is taken, before the re-check)
SubmitAcquireSpawnsEarly(c) ==
    /\ spc[c] = "select"
    /\ SemCanSend
    /\ sem' = sem + 1
    /\ spc' = [spc EXCEPT ![c] = "recheck"]
    /\ wpc' = [wpc EXCEPT ![c] = "check"]
    /\ UNCHANGED <<closed, semCap, capReq, pre, errs, closeCount, crashed,
                   sentOnClosed, job, ctxDone, ret, afterCW, rolled, outcome,
                   closerVars, consumer, got, backoffVars>>

\* select { case g.sem <- struct{}{}: ... }
SubmitAcquire(c) ==
    /\ spc[c] = "select"
    /\ SemCanSend
    /\ sem' = sem + 1
    /\ spc' = [spc EXCEPT ![c] = "recheck"]
    /\ UNCHANGED <<closed, semCap, capReq, pre, errs, closeCount, crashed,
                   sentOnClosed, job, ctxDone, ret, afterCW, rolled,
                   workerVars, closerVars, consumer, got, backoffVars>>

\* (the cancellation case returning nil instead of ctx.Err())
SubmitCtxDoneNil(c) ==
    /\ spc[c] = "select"
    /\ ctxDone[c]
    /\ spc' = [spc EXCEPT ![c] = "done"]
    /\ ret' = [ret EXCEPT ![c] = ErrNil]
    /\ UNCHANGED <<job, ctxDone, afterCW, rolled, gateVars, workerVars,
                   closerVars, consumer, got, backoffVars>>

\* (the cancellation case starting the worker before it returns ctx.Err())
SubmitCtxDoneSpawn(c) ==
    /\ spc[c] = "select"
    /\ ctxDone[c]
    /\ spc' = [spc EXCEPT ![c] = "done"]
    /\ ret' = [ret EXCEPT ![c] = ErrCtx]
    /\ wpc' = [wpc EXCEPT ![c] = "check"]
    /\ UNCHANGED <<job, ctxDone, afterCW, rolled, outcome, gateVars,
                   closerVars, consumer, got, backoffVars>>

\* select { ... case <-ctx.Done(): return ctx.Err() }
SubmitCtxDone(c) ==
    /\ spc[c] = "select"
    /\ ctxDone[c]
    /\ spc' = [spc EXCEPT ![c] = "done"]
    /\ ret' = [ret EXCEPT ![c] = ErrCtx]
    /\ UNCHANGED <<job, ctxDone, afterCW, rolled, gateVars, workerVars,
                   closerVars, consumer, got, backoffVars>>

\* (the test of the second Load negated)
SubmitRecheckInverted(c) ==
    /\ spc[c] = "recheck"
    /\ spc' = [spc EXCEPT ![c] = IF ~closed THEN "rollback" ELSE "spawn"]
    /\ UNCHANGED <<job, ctxDone, ret, afterCW, rolled, gateVars, workerVars,
                   closerVars, consumer, got, backoffVars>>

\* the second g.closed.Load(), made while holding the slot
SubmitRecheck(c) ==
    /\ spc[c] = "recheck"
    /\ spc' = [spc EXCEPT ![c] = IF closed THEN "rollback" ELSE "spawn"]
    /\ UNCHANGED <<job, ctxDone, ret, afterCW, rolled, gateVars, workerVars,
                   closerVars, consumer, got, backoffVars>>

\* (the return after `<-g.sem` missing: the call goes on to start the worker)
SubmitRollbackFallsThrough(c) ==
    /\ spc[c] = "rollback"
    /\ sem > 0
    /\ sem' = sem - 1
    /\ spc' = [spc EXCEPT ![c] = "done"]
    /\ ret' = [ret EXCEPT ![c] = ErrNil]
    /\ wpc' = [wpc EXCEPT ![c] = "check"]
    /\ rolled' = rolled \cup {c}
    /\ UNCHANGED <<closed, semCap, capReq, pre, errs, closeCount, crashed,
                   sentOnClosed, job, ctxDone, afterCW, outcome, closerVars,
                   consumer, got, backoffVars>>

\* (the `<-g.sem` missing: the call returns ErrShutdown holding its token)
SubmitRollbackNoRelease(c) ==
    /\ spc[c] = "rollback"
    /\ spc' = [spc EXCEPT ![c] = "done"]
    /\ ret' = [ret EXCEPT ![c] = ErrShutdown]
    /\ rolled' = rolled \cup {c}
    /\ UNCHANGED <<gateVars, job, ctxDone, afterCW, workerVars, closerVars,
                   consumer, got, backoffVars>>

\* <-g.sem; return ErrShutdown
SubmitRollback(c) ==
    /\ spc[c] = "rollback"
    /\ sem > 0
    /\ sem' = sem - 1
    /\ spc' = [spc EXCEPT ![c] = "done"]
    /\ ret' = [ret EXCEPT ![c] = ErrShutdown]
    /\ rolled' = rolled \cup {c}
    /\ UNCHANGED <<closed, semCap, capReq, pre, errs, closeCount, crashed,
                   sentOnClosed, job, ctxDone, afterCW, workerVars,
                   closerVars, consumer, got, backoffVars>>

\* go g.worker(ctx, jb); return nil
SubmitSpawn(c) ==
    /\ spc[c] = "spawn"
    /\ wpc' = [wpc EXCEPT ![c] = "check"]
    /\ spc' = [spc EXCEPT ![c] = "done"]
    /\ ret' = [ret EXCEPT ![c] = ErrNil]
    /\ UNCHANGED <<job, ctxDone, afterCW, rolled, outcome, gateVars,
                   closerVars, consumer, got, backoffVars>>

\* The owner of a call's context cancels it (cancel(), or a deadline passes)
\* while the call or the job it admitted is still in progress.
Cancel(c) ==
    /\ ~ctxDone[c]
    /\ \/ spc[c] \notin {"idle", "done"}
       \/ wpc[c] \in {"check", "run"}
    /\ ctxDone' = [ctxDone EXCEPT ![c] = TRUE]
    /\ UNCHANGED <<spc, job, ret, afterCW, rolled, gateVars, workerVars,
                   closerVars, consumer, got, backoffVars>>

\* ---------------------------------------------------------------- worker
\* (the slot release not deferred: the early return skips it)
WorkerCheckCtxLeak(c) ==
    /\ wpc[c] = "check"
    /\ IF ctxDone[c]
          THEN /\ wpc' = [wpc EXCEPT ![c] = "done"]
               /\ outcome' = [outcome EXCEPT ![c] = "skipped"]
          ELSE /\ wpc' = [wpc EXCEPT ![c] = "run"]
               /\ UNCHANGED outcome
    /\ UNCHANGED <<gateVars, submitVars, closerVars, consumer, got,
                   backoffVars>>

\* (the cancellation check missing: Run is always invoked)
WorkerCheckCtxIgnored(c) ==
    /\ wpc[c] = "check"
    /\ wpc' = [wpc EXCEPT ![c] = "run"]
    /\ UNCHANGED <<outcome, gateVars, submitVars, closerVars, consumer, got,
                   backoffVars>>

\* (the slot released at the top of the worker instead of in a defer)
WorkerCheckCtxReleaseEarly(c) ==
    /\ wpc[c] = "check"
    /\ sem > 0
    /\ sem' = sem - 1
    /\ IF ctxDone[c]
          THEN /\ wpc' = [wpc EXCEPT ![c] = "release"]
               /\ outcome' = [outcome EXCEPT ![c] = "skipped"]
          ELSE /\ wpc' = [wpc EXCEPT ![c] = "run"]
               /\ UNCHANGED outcome
    /\ UNCHANGED <<closed, semCap, capReq, pre, errs, closeCount, crashed,
                   sentOnClosed, submitVars, closerVars, consumer, got,
                   backoffVars>>

\* select { case <-ctx.Done(): return; default: }
WorkerCheckCtx(c) ==
    /\ wpc[c] = "check"
    /\ IF ctxDone[c]
          THEN /\ wpc' = [wpc EXCEPT ![c] = "release"]
               /\ outcome' = [outcome EXCEPT ![c] = "skipped"]
          ELSE /\ wpc' = [wpc EXCEPT ![c] = "run"]
               /\ UNCHANGED outcome
    /\ UNCHANGED <<gateVars, submitVars, closerVars, consumer, got,
                   backoffVars>>

\* (the slot released right after Run, before the error is sent)
WorkerRunReturnReleaseFirst(c, o) ==
    /\ wpc[c] = "run"
    /\ outcome' = [outcome EXCEPT ![c] = o]
    /\ IF o = "err"
          THEN /\ sem > 0
               /\ sem' = sem - 1
               /\ wpc' = [wpc EXCEPT ![c] = "send"]
          ELSE /\ wpc' = [wpc EXCEPT ![c] = "release"]
               /\ UNCHANGED sem
    /\ UNCHANGED <<closed, semCap, capReq, pre, errs, closeCount, crashed,
                   sentOnClosed, submitVars, closerVars, consumer, got,
                   backoffVars>>

\* (the slot release not deferred: a panic unwinds past it)
WorkerRunReturnNoDefer(c, o) ==
    /\ wpc[c] = "run"
    /\ outcome' = [outcome EXCEPT ![c] = o]
    /\ wpc' = [wpc EXCEPT ![c] = CASE o = "err" -> "send"
                                   [] o = "panic" -> "done"
                                   [] OTHER -> "release"]
    /\ UNCHANGED <<gateVars, submitVars, closerVars, consumer, got,
                   backoffVars>>

\* err := jb.Run(ctx) returns nil, returns an error, or panics; the deferred
\* recover() swallows the panic.
WorkerRunReturn(c, o) ==
    /\ wpc[c] = "run"
    /\ outcome' = [outcome EXCEPT ![c] = o]
    /\ wpc' = [wpc EXCEPT ![c] = IF o = "err" THEN "send" ELSE "release"]
    /\ UNCHANGED <<gateVars, submitVars, closerVars, consumer, got,
                   backoffVars>>

\* (g.errs made without a buffer: with no receiver waiting the non-blocking
\* send always takes the default case)
WorkerSendUnbuffered(c) ==
    /\ wpc[c] = "send"
    /\ sentOnClosed' = (sentOnClosed \/ errsClosed)
    /\ wpc' = [wpc EXCEPT ![c] = "release"]
    /\ UNCHANGED <<closed, sem, semCap, capReq, pre, errs, closeCount,
                   crashed, outcome, submitVars, closerVars, consumer, got,
                   backoffVars>>

\* (a plain blocking send `g.errs <- err`: it waits for room in the buffer)
WorkerSendBlocking(c) ==
    /\ wpc[c] = "send"
    /\ errsClosed \/ Len(errs) < defaultErrBuffer
    /\ IF errsClosed
          THEN /\ sentOnClosed' = TRUE
               /\ UNCHANGED errs
          ELSE /\ errs' = Append(errs, c)
               /\ UNCHANGED sentOnClosed
    /\ wpc' = [wpc EXCEPT ![c] = "release"]
    /\ UNCHANGED <<closed, sem, semCap, capReq, pre, closeCount, crashed,
                   outcome, submitVars, closerVars, consumer, got,
                   backoffVars>>

\* (a full buffer makes room by discarding its oldest error)
WorkerSendDropOldest(c) ==
    /\ wpc[c] = "send"
    /\ IF errsClosed
          THEN /\ sentOnClosed' = TRUE
               /\ UNCHANGED errs
          ELSE /\ errs' = IF Len(errs) < defaultErrBuffer
                             THEN Append(errs, c)
                             ELSE Append(Tail(errs), c)
               /\ UNCHANGED sentOnClosed
    /\ wpc' = [wpc EXCEPT ![c] = "release"]
    /\ UNCHANGED <<closed, sem, semCap, capReq, pre, closeCount, crashed,
                   outcome, submitVars, closerVars, consumer, got,
                   backoffVars>>

\* select { case g.errs <- err: default: }
\* (a send on a closed channel panics; the deferred recover() swallows it)
WorkerSend(c) ==
    /\ wpc[c] = "send"
    /\ IF errsClosed
          THEN /\ sentOnClosed' = TRUE
               /\ UNCHANGED errs
          ELSE /\ errs' = IF Len(errs) < defaultErrBuffer
                             THEN Append(errs, c) ELSE errs
               /\ UNCHANGED sentOnClosed
    /\ wpc' = [wpc EXCEPT ![c] = "release"]
    /\ UNCHANGED <<closed, sem, semCap, capReq, pre, closeCount, crashed,
                   outcome, submitVars, closerVars, consumer, got,
                   backoffVars>>

\* (the deferred release missing: the worker ends holding its token)
WorkerReleaseLeak(c) ==
    /\ wpc[c] = "release"
    /\ wpc' = [wpc EXCEPT ![c] = "done"]
    /\ UNCHANGED <<gateVars, outcome, submitVars, closerVars, consumer, got,
                   backoffVars>>

\* defer func() { <-g.sem }()
WorkerRelease(c) ==
    /\ wpc[c] = "release"
    /\ sem > 0
    /\ sem' = sem - 1
    /\ wpc' = [wpc EXCEPT ![c] = "done"]
    /\ UNCHANGED <<closed, semCap, capReq, pre, errs, closeCount, crashed,
                   sentOnClosed, outcome, submitVars, closerVars, consumer,
                   got, backoffVars>>

\* ---------------------------------------------------------- CloseAndWait
\* g.closed.Swap(true): an atomic test-and-set; TRUE when this call is the
\* one that flipped the flag.
SwapWinsNonAtomic(old) == TRUE
SwapWins(old) == ~old

\* if g.closed.Swap(true) { return }
CWSwap(k) ==
    /\ cpc[k] = "idle"
    /\ \A j \in Closers : j < k => cpc[j] # "idle"
    /\ closed' = TRUE
    /\ IF SwapWins(closed)
          THEN /\ cpc' = [cpc EXCEPT ![k] = "drain"]
               /\ drainer' = drainer \cup {k}
          ELSE /\ cpc' = [cpc EXCEPT ![k] = "done"]
               /\ UNCHANGED drainer
    /\ UNCHANGED <<sem, semCap, capReq, pre, errs, closeCount, crashed,
                   sentOnClosed, ci, submitVars, workerVars, consumer, got,
                   backoffVars>>

\* the loop condition i < g.Capacity()
DrainMoreOffByOne(i) == i < Capacity - 1
DrainMore(i) == i < Capacity

\* (the drain loop sending without blocking: a full semaphore is skipped)
CWAcquireNonBlocking(k) ==
    /\ cpc[k] = "drain"
    /\ DrainMore(ci[k])
    /\ sem' = IF SemCanSend THEN sem + 1 ELSE sem
    /\ ci' = [ci EXCEPT ![k] = @ + 1]
    /\ UNCHANGED <<closed, semCap, capReq, pre, errs, closeCount, crashed,
                   sentOnClosed, cpc, drainer, submitVars, workerVars,
                   consumer, got, backoffVars>>

\* for i := 0; i < g.Capacity(); i++ { g.sem <- struct{}{} }
CWAcquire(k) ==
    /\ cpc[k] = "drain"
    /\ DrainMore(ci[k])
    /\ SemCanSend
    /\ sem' = sem + 1
    /\ ci' = [ci EXCEPT ![k] = @ + 1]
    /\ UNCHANGED <<closed, semCap, capReq, pre, errs, closeCount, crashed,
                   sentOnClosed, cpc, drainer, submitVars, workerVars,
                   consumer, got, backoffVars>>

\* (the gate put back to idle for reuse after the join: the tokens are
\* taken out again and the flag is reset)
CWCloseReuse(k) ==
    /\ cpc[k] = "drain"
    /\ ~DrainMore(ci[k])
    /\ closeCount' = closeCount + 1
    /\ crashed' = (crashed \/ errsClosed)
    /\ sem' = 0
    /\ closed' = FALSE
    /\ cpc' = [cpc EXCEPT ![k] = "done"]
    /\ UNCHANGED <<semCap, capReq, pre, errs, sentOnClosed, ci, drainer,
                   submitVars, workerVars, consumer, got, backoffVars>>

\* (lines 80-82 not commented out: the tokens are taken out again before
\* the stream is closed)
CWCloseIdle(k) ==
    /\ cpc[k] = "drain"
    /\ ~DrainMore(ci[k])
    /\ closeCount' = closeCount + 1
    /\ crashed' = (crashed \/ errsClosed)
    /\ sem' = 0
    /\ cpc' = [cpc EXCEPT ![k] = "done"]
    /\ UNCHANGED <<closed, semCap, capReq, pre, errs, sentOnClosed, ci,
                   drainer, submitVars, workerVars, consumer, got,
                   backoffVars>>

\* close(g.errs), then return
CWClose(k) ==
    /\ cpc[k] = "drain"
    /\ ~DrainMore(ci[k])
    /\ closeCount' = closeCount + 1
    /\ crashed' = (crashed \/ errsClosed)
    /\ cpc' = [cpc EXCEPT ![k] = "done"]
    /\ UNCHANGED <<closed, sem, semCap, capReq, pre, errs, sentOnClosed, ci,
                   drainer, submitVars, workerVars, consumer, got,
                   backoffVars>>

\* ------------------------------------------------- consumer of g.Errors()
\* for err := range g.Errors() { ... }: one receive.  The history in which
\* the earlier jobs filled the buffer is the one in which nobody reads the
\* stream.
RecvErr ==
    /\ consumer = "ranging"
    /\ errs # <<>>
    /\ pre = 0
    /\ errs' = Tail(errs)
    /\ got' = got \cup ({Head(errs)} \cap Calls)
    /\ UNCHANGED <<closed, sem, semCap, capReq, pre, closeCount, crashed,
                   sentOnClosed, submitVars, workerVars, closerVars,
                   consumer, backoffVars>>

\* the range loop ends: the channel is closed and empty
RecvEnd ==
    /\ consumer = "ranging"
    /\ errsClosed
    /\ errs = <<>>
    /\ consumer' = "done"
    /\ UNCHANGED <<gateVars, submitVars, workerVars, closerVars, got,
                   backoffVars>>

Next ==
    \/ EarlierJobsFailed
    \/ \E c \in Calls, jb \in Jobs, fired \in BOOLEAN : SubmitBegin(c, jb, fired)
    \/ \E c \in Calls : SubmitNilCheck(c)
    \/ \E c \in Calls : SubmitLoad(c)
    \/ \E c \in Calls : SubmitAcquire(c)
    \/ \E c \in Calls : SubmitCtxDone(c)
    \/ \E c \in Calls : SubmitRecheck(c)
    \/ \E c \in Calls : SubmitRollback(c)
    \/ \E c \in Calls : SubmitSpawn(c)
    \/ \E c \in Calls : Cancel(c)
    \/ \E c \in Calls : WorkerCheckCtx(c)
    \/ \E c \in Calls, o \in Outcomes : WorkerRunReturn(c, o)
    \/ \E c \in Calls : WorkerSend(c)
    \/ \E c \in Calls : WorkerRelease(c)
    \/ \E k \in Closers : CWSwap(k)
    \/ \E k \in Closers : CWAcquire(k)
    \/ \E k \in Closers : CWClose(k)
    \/ RecvErr
    \/ RecvEnd

Spec == Init /\ [][Next]_vars

\* ---------------------------------------------------------------- Backoff
\* Package backoff (src/httpsrv/README.md, lines 200-239).  time.Duration is
\* an int64; the model keeps two's-complement arithmetic at DurationBits
\* bits.
Modulus == 2 ^ DurationBits
MinDuration == -(2 ^ (DurationBits - 1))
MaxDuration == 2 ^ (DurationBits - 1) - 1
Durations == MinDuration..MaxDuration

\* the value an integer operation leaves in a time.Duration
Wrap(x) == ((x - MinDuration) % Modulus) + MinDuration

\* Go's integer division x / y for y > 0: truncated towards zero
Quo(x, y) == IF x >= 0 THEN x \div y ELSE -((-x) \div y)

\* rng.Int63n(n) panics if n <= 0, and otherwise returns a value in [0, n)
Int63nPanics(n) == n <= 0
Int63n(n) == 0..(n - 1)

\* values given to Reset
ResetInputs == {MinDuration, -1, 0, 1, 2, 3, MaxDuration}

\* New(initial, max, seed)
BackoffNew(i, m) ==
    /\ current = i
    /\ max = m
    /\ initial = i
    /\ sleep = 0
    /\ bpc = "new"
    /\ hist = <<>>

\* a Backoff made by New with any two durations; the Gate plays no part
BackoffInit ==
    /\ NewGate(1)
    /\ \E i \in Durations, m \in Durations : BackoffNew(i, m)

\* b.current *= 2; if b.current > b.max { b.current = b.max }
Doubled(c, m) == IF Wrap(c * 2) > m THEN m ELSE Wrap(c * 2)

\* func (b *Backoff) Next() time.Duration
BackoffNext ==
    /\ bpc # "panicked"
    /\ Len(hist) < MaxBackoffCalls
    /\ hist' = Append(hist, "Next")
    /\ IF Int63nPanics(Quo(current, 2))
          THEN /\ bpc' = "panicked"
               /\ UNCHANGED <<current, sleep>>
          ELSE /\ \E r \in Int63n(Quo(current, 2)) :
                      sleep' = Wrap(Quo(current, 2) + r)
               /\ current' = Doubled(current, max)
               /\ bpc' = "returned"
    /\ UNCHANGED <<max, initial, gateVars, submitVars, workerVars,
                   closerVars, consumer, got>>

\* func (b *Backoff) Reset(initial time.Duration)
BackoffReset(v) ==
    /\ bpc # "panicked"
    /\ Len(hist) < MaxBackoffCalls
    /\ hist' = Append(hist, "Reset")
    /\ current' = v
    /\ bpc' = "returned"
    /\ UNCHANGED <<max, initial, sleep, gateVars, submitVars, workerVars,
                   closerVars, consumer, got>>

BackoffStep ==
    \/ BackoffNext
    \/ \E v \in ResetInputs : BackoffReset(v)

BackoffSpec == BackoffInit /\ [][BackoffStep]_vars

\* What the Go scheduler guarantees: a goroutine that can take its next step
\* takes it.  A Submit or CloseAndWait call that has begun, and a worker
\* that was spawned, go on as long as they are not blocked on a channel;
\* whether and when callers begin calls, cancel contexts or read g.Errors()
\* is up to them.  Every Run that was invoked ends (the proviso of the
\* progress claims).
Fairness ==
    /\ \A c \in Calls :
          /\ WF_vars(SubmitNilCheck(c))
          /\ WF_vars(SubmitLoad(c))
          /\ WF_vars(SubmitAcquire(c) \/ SubmitCtxDone(c))
          /\ WF_vars(SubmitRecheck(c))
          /\ WF_vars(SubmitRollback(c))
          /\ WF_vars(SubmitSpawn(c))
          /\ WF_vars(WorkerCheckCtx(c))
          /\ WF_vars(\E o \in Outcomes : WorkerRunReturn(c, o))
          /\ WF_vars(WorkerSend(c))
          /\ WF_vars(WorkerRelease(c))
    /\ \A k \in Closers :
          /\ WF_vars(CWAcquire(k))
          /\ WF_vars(CWClose(k))

LiveSpec == Spec /\ Fairness

\* ------------------------------------------------------------ properties
\* admitted jobs that still hold their slot: the worker has not released
\* it, or Submit is about to spawn the worker
HoldingJobs == Running \cup {c \in Calls : spc[c] = "spawn"}

\* the gate is open and every slot is held by a running job
FullOfRunning == ~closed /\ Cardinality(Running) = Capacity

\* C1: in every reachable state the number of admitted jobs that have not
\* released their slot is at most the capacity (and so is the number of
\* tokens in the semaphore).
C1_ConcurrencyBound ==
    /\ Cardinality(HoldingJobs) <= Capacity
    /\ InUse <= Capacity

\* capacity 2 with two jobs running at once
C1_Witness == Capacity > 1 /\ Cardinality(Running) = Capacity

\* C2: the error stream is closed, and the draining CloseAndWait has
\* returned, only in states where no admitted job holds a slot.
C2_Join ==
    (errsClosed \/ \E k \in drainer : cpc[k] = "done") => HoldingJobs = {}

\* the draining call is blocked on a full semaphore by a running job
C2_Witness ==
    \E k \in drainer :
        /\ cpc[k] = "drain"
        /\ ci[k] < Capacity
        /\ sem = Capacity
        /\ Running # {}
        /\ ~errsClosed

\* C3: once the closed flag is true no worker is spawned and no Run is
\* invoked.
C3_NoStartAfterClosed ==
    [][closed => \A c \in Calls :
                    /\ wpc[c] = "none" => wpc'[c] = "none"
                    /\ wpc[c] # "run" => wpc'[c] # "run"]_vars

\* C4: when any CloseAndWait call has returned, no admitted job holds a
\* slot and the error stream is closed.
C4_ReturnMeansDrained ==
    \A k \in Closers :
        cpc[k] = "done" => (errsClosed /\ HoldingJobs = {})

\* C5: a Submit of a non-nil job that began after a CloseAndWait call had
\* returned never waits in the select, never holds a slot, starts no
\* worker, and returns ErrShutdown.
C5_ShutdownAfterReturn ==
    \A c \in Calls :
        (afterCW[c] /\ job[c] = "job") =>
            /\ spc[c] \in {"nilcheck", "load", "done"}
            /\ wpc[c] = "none"
            /\ spc[c] = "done" => ret[c] = ErrShutdown

\* such a Submit has returned ErrShutdown
C5_Witness ==
    \E c \in Calls :
        afterCW[c] /\ job[c] = "job" /\ ret[c] = ErrShutdown

\* C6: whatever the number and interleaving of CloseAndWait calls, the
\* error stream is closed at most once and never twice (no panic), at most
\* one call drains, and once the draining call has returned the gate is in
\* the state a single call leaves: closed, all slots taken, stream closed
\* once.
C6_Idempotent ==
    /\ closeCount <= 1
    /\ ~crashed
    /\ Cardinality(drainer) <= 1
    /\ (\E k \in drainer : cpc[k] = "done") =>
           (closed /\ sem = Capacity /\ closeCount = 1)

\* every CloseAndWait call was made and has returned
C6_Witness ==
    /\ \A k \in Closers : cpc[k] = "done"
    /\ closeCount = 1

\* C7: once the gate is Closed no Submit call is left waiting for a slot
\* with a context that has not fired (such a call can never return: the
\* semaphore stays full for ever).
C7_FailFast ==
    errsClosed => \A c \in Calls : ~(spc[c] = "select" /\ ~ctxDone[c])

\* C8: while the gate is open and all its slots are held by running jobs,
\* no Submit call returns nil, and a call waiting in the select leaves it
\* only with the error of its fired cancellation.
C8_BackPressure ==
    [][FullOfRunning => \A c \in Calls :
            /\ ret'[c] = ErrNil => ret[c] = ErrNil
            /\ (spc[c] = "select" /\ spc'[c] # "select") =>
                   (ctxDone[c] /\ ret'[c] = ErrCtx)]_vars

\* a Submit is blocked, its context not fired, on a gate full of running
\* jobs
C8_Witness ==
    /\ FullOfRunning
    /\ \E c \in Calls : spc[c] = "select" /\ ~ctxDone[c]

\* C9 as claimed: a Submit of a non-nil job that has not taken a slot, whose
\* cancellation has fired and that returns while the gate is full returns
\* the cancellation's error, starts no worker and leaves the occupancy as
\* it was.
C9_Original ==
    [][\A c \in Calls :
          (/\ job[c] = "job"
           /\ spc[c] \in {"nilcheck", "load", "select"}
           /\ ctxDone[c]
           /\ sem = Capacity
           /\ ret'[c] # ErrNone) =>
              (ret'[c] = ErrCtx /\ sem' = sem /\ wpc' = wpc)]_vars

\* C9 amended: a Submit of a non-nil job that found the closed flag false
\* at its entry check (it reached the select), whose cancellation has fired
\* and that leaves the select while the gate is full returns the
\* cancellation's error, starts no worker and leaves the occupancy as it
\* was; no call that returned the cancellation's error ever has a worker.
C9_CancelWhileFull ==
    /\ [][\A c \in Calls :
             (/\ spc[c] = "select"
              /\ ctxDone[c]
              /\ sem = Capacity
              /\ spc'[c] # "select") =>
                 (ret'[c] = ErrCtx /\ sem' = sem /\ wpc' = wpc)]_vars
    /\ [](\A c \in Calls : ret[c] = ErrCtx => wpc[c] = "none")

\* a Submit of a job returned the cancellation's error on a full open gate
C9_Witness ==
    \E c \in Calls :
        /\ job[c] = "job"
        /\ ret[c] = ErrCtx
        /\ wpc[c] = "none"
        /\ ~closed
        /\ sem = Capacity

\* C10: a Submit of a nil job returns ErrNilJobSubmitted in its first step
\* whatever the gate state, and that step changes neither the semaphore,
\* the closed flag, the error stream nor any worker; it never reaches the
\* select and never has a worker.
C10_NilJob ==
    /\ [][\A c \in Calls :
             (job[c] = "nilJob" /\ spc[c] = "nilcheck" /\ spc'[c] # "nilcheck")
                => /\ spc'[c] = "done"
                   /\ ret'[c] = ErrNilJobSubmitted
                   /\ UNCHANGED <<closed, sem, errs, closeCount, wpc>>]_vars
    /\ [](\A c \in Calls :
             job[c] = "nilJob" =>
                /\ spc[c] \in {"nilcheck", "done"}
                /\ wpc[c] = "none"
                /\ ret[c] \in {ErrNone, ErrNilJobSubmitted})

\* a nil job was rejected on a closed, full gate with its context fired
C10_Witness ==
    \E c \in Calls :
        /\ job[c] = "nilJob"
        /\ ret[c] = ErrNilJobSubmitted
        /\ ctxDone[c]
        /\ closed
        /\ sem = Capacity
\* the elements of a sequence
Range(q) == {q[i] : i \in 1..Len(q)}

\* tokens the draining CloseAndWait calls have placed so far
RECURSIVE SumCi(_)
SumCi(S) == IF S = {} THEN 0
            ELSE LET k == CHOOSE x \in S : TRUE IN ci[k] + SumCi(S \ {k})
DrainTokens == SumCi(Closers)

\* jobs that returned a non-nil error over the gate's lifetime
FailedTotal == pre + Cardinality({c \in Calls : outcome[c] = "err"})

\* the error of call c is in the buffer of g.errs or was received from it
Delivered(c) == c \in Range(errs) \cup got

\* C11: a job that panicked in Run has been recovered: its worker is at or
\* past the deferred release, which can proceed; its Submit returned nil;
\* nothing was enqueued for it; no panic escaped; and once it has released,
\* the semaphore holds exactly the tokens of the other holders, so the slot
\* is free for a new admission or for the drain.
C11_PanicAbsorbed ==
    \A c \in Calls :
        outcome[c] = "panic" =>
            /\ wpc[c] \in {"release", "done"}
            /\ ret[c] = ErrNil
            /\ ~Delivered(c)
            /\ ~crashed
            /\ wpc[c] = "release" => sem > 0
            /\ wpc[c] = "done" =>
                   sem = Cardinality(Running) + Cardinality(Admitting)
                            + DrainTokens

\* capacity 1: one job panicked, another ran to the end, and CloseAndWait
\* completed
C11_Witness ==
    /\ Capacity = 1
    /\ errsClosed
    /\ \E c, d \in Calls :
          /\ outcome[c] = "panic" /\ wpc[c] = "done"
          /\ outcome[d] = "ok" /\ wpc[d] = "done"

\* C12: on an open gate the tokens in the semaphore are exactly those of
\* the workers that have not released and of the Submit calls holding one:
\* every worker that ended, whatever its outcome, gave back one slot, and
\* when no job runs and no Submit is in progress the occupancy is 0.
C12_ReleaseOnce ==
    /\ ~closed => sem = Cardinality(Running \cup Admitting)
    /\ \A c \in Calls :
          wpc[c] = "done" => outcome[c] \in {"skipped", "ok", "err", "panic"}

\* open gate, every call admitted and finished (one skipped on
\* cancellation, one with an error), occupancy 0
C12_Witness ==
    /\ ~closed
    /\ sem = 0
    /\ \A c \in Calls : wpc[c] = "done"
    /\ \E c, d \in Calls : outcome[c] = "skipped" /\ outcome[d] = "err"

\* C13: if at most defaultErrBuffer jobs returned an error over the gate's
\* lifetime, the error of every job that is past its send is in the buffer
\* or was received; so when the stream is closed every error is there, and
\* a consumer that read to the end of the stream received them all.
C13_ErrorsForwarded ==
    FailedTotal <= defaultErrBuffer =>
        /\ \A c \in Calls :
              (outcome[c] = "err" /\ wpc[c] \in {"release", "done"})
                 => Delivered(c)
        /\ errsClosed => \A c \in Calls : outcome[c] = "err" => Delivered(c)
        /\ consumer = "done" =>
               \A c \in Calls : outcome[c] = "err" => c \in got

\* the stream was closed with an error in its buffer that nobody has read
\* yet
C13_Witness ==
    /\ errsClosed
    /\ got = {}
    /\ \E k \in Closers : cpc[k] = "done" /\ k \in drainer
    /\ \E c \in Calls : outcome[c] = "err" /\ c \in Range(errs)
\* C14: if every Run that was invoked ends, a CloseAndWait call that is
\* draining eventually returns, also when nobody reads g.Errors(), the
\* buffer is full and further jobs fail, and callers are waiting in Submit.
C14_DrainTerminates ==
    \A k \in Closers : (cpc[k] = "drain") ~> (cpc[k] = "done")

\* the draining call returned; nobody read the full buffer, a further job
\* failed and its error was dropped, and a caller is still waiting in Submit
C14_Witness ==
    /\ \E k \in drainer : cpc[k] = "done"
    /\ pre = defaultErrBuffer
    /\ Len(errs) = defaultErrBuffer
    /\ \E c \in Calls : outcome[c] = "err" /\ wpc[c] = "done"
    /\ \E d \in Calls : spc[d] = "select"
\* C15: InUse() is the number of running jobs (counting a Submit call that
\* holds a token as its job running), and Available() is the capacity
\* minus that number.
C15_InUseIsRunning ==
    /\ InUse = Cardinality(Running \cup Admitting)
    /\ Available = Capacity - Cardinality(Running \cup Admitting)

MaxOf(a, b) == IF a >= b THEN a ELSE b

\* C16: in every state Capacity() is max(1, c) for the argument c NewGate
\* was given (so no operation changes it), and the gate NewGate returns
\* has no occupied slot, the closed flag false and an open, empty error
\* stream.
C16_NewGate ==
    /\ Capacity = MaxOf(1, capReq)
    /\ Fresh => (sem = 0 /\ ~closed /\ errs = <<>> /\ ~errsClosed)

\* a gate made with a capacity <= 0 went through its whole life with
\* capacity 1
C16_Witness ==
    /\ capReq <= 0
    /\ Capacity = 1
    /\ errsClosed
    /\ \E c \in Calls : wpc[c] = "done"

\* Open = 0, Draining = 1, Closed = 2
PhaseNum == IF ~closed THEN 0 ELSE IF ~errsClosed THEN 1 ELSE 2

\* C17: the closed flag only goes from false to true and only in the Swap
\* of a CloseAndWait call; the stream is closed only by the draining call
\* and stays closed; the phase only moves Open -> Draining -> Closed, one
\* step at a time.
C17_OneWay ==
    [][/\ closed => closed'
       /\ errsClosed => errsClosed'
       /\ closed' # closed =>
              \E k \in Closers : cpc[k] = "idle" /\ cpc'[k] = "drain"
       /\ closeCount' # closeCount =>
              \E k \in Closers : cpc[k] = "drain" /\ cpc'[k] = "done"
       /\ PhaseNum' \in {PhaseNum, PhaseNum + 1}]_vars

\* the gate is Closed and every call of either kind has returned
C17_Witness ==
    /\ PhaseNum = 2
    /\ \A k \in Closers : cpc[k] = "done"
    /\ \A c \in Calls : spc[c] = "done"

\* C18: no worker has executed a send on the closed error stream, and once
\* the stream is closed no worker is left that could still send.
C18_NoSendAfterClose ==
    /\ ~sentOnClosed
    /\ errsClosed => \A c \in Calls : wpc[c] \in {"none", "done"}

\* the stream is closed and every call's job failed and sent its error
\* before that
C18_Witness ==
    /\ errsClosed
    /\ \A c \in Calls :
          outcome[c] = "err" /\ wpc[c] = "done" /\ Delivered(c)
\* no CloseAndWait call has been made
NoCloseStarted == \A k \in Closers : cpc[k] = "idle"

\* C19 as claimed: on an open gate with a free slot and no CloseAndWait, a
\* Submit of a non-nil job that leaves its select has taken exactly one
\* slot, whatever the state of its cancellation.
C19_Original ==
    [][\A c \in Calls :
          (/\ NoCloseStarted
           /\ spc[c] = "select"
           /\ sem < Capacity
           /\ spc'[c] # "select") =>
              (spc'[c] = "recheck" /\ sem' = sem + 1)]_vars

\* C19 amended: the same for a Submit whose cancellation has not fired;
\* and with no CloseAndWait the call then passes the re-check, spawns its
\* worker (once) and returns nil without taking or giving back another
\* slot; the worker invokes Run unless the cancellation has fired by its
\* check.
C19_AdmitWhenFree ==
    /\ [][\A c \in Calls :
             (/\ NoCloseStarted
              /\ spc[c] = "select"
              /\ sem < Capacity
              /\ ~ctxDone[c]
              /\ spc'[c] # "select") =>
                 (spc'[c] = "recheck" /\ sem' = sem + 1)]_vars
    /\ [][\A c \in Calls :
             (NoCloseStarted /\ spc[c] = "recheck" /\ spc'[c] # "recheck")
                => (spc'[c] = "spawn" /\ sem' = sem)]_vars
    /\ [][\A c \in Calls :
             (spc[c] = "spawn" /\ spc'[c] # "spawn") =>
                /\ spc'[c] = "done"
                /\ ret'[c] = ErrNil
                /\ wpc[c] = "none" /\ wpc'[c] = "check"
                /\ sem' = sem]_vars
    /\ [][\A c \in Calls :
             (wpc[c] = "check" /\ ~ctxDone[c] /\ wpc'[c] # "check")
                => wpc'[c] = "run"]_vars
    /\ [](\A c \in Calls : ret[c] = ErrNil <=> wpc[c] # "none")

\* Submit has returned nil while the job it admitted is still in Run
C19_Witness ==
    /\ NoCloseStarted
    /\ \E c \in Calls :
          /\ ret[c] = ErrNil
          /\ ~ctxDone[c]
          /\ wpc[c] = "run"
          /\ sem = 1
\* C20: if every Run that was invoked ends, a Submit of a non-nil job that
\* has begun eventually returns nil, unless its cancellation fires or the
\* gate is closed: the slots released by finished jobs reach the waiting
\* calls.
C20_EventuallyAdmitted ==
    \A c \in Calls :
        (job[c] = "job" /\ spc[c] \in {"nilcheck", "load", "select"})
            ~> (ret[c] = ErrNil \/ ctxDone[c] \/ closed)

\* capacity 1, gate open: one job has finished and released the slot, the
\* other call, its cancellation not fired, was admitted as well
C20_Witness ==
    /\ Capacity = 1
    /\ ~closed
    /\ \E c, d \in Calls :
          /\ c # d
          /\ wpc[c] = "done"
          /\ ret[d] = ErrNil /\ ~ctxDone[d]
\* C21: the buffer of the error stream never holds more than
\* defaultErrBuffer errors; a worker's send on a full buffer leaves the
\* buffer as it is (the error is dropped), a send on a buffer with room
\* appends at the end; no step of a worker or caller changes what is
\* buffered otherwise; and a worker at its send can always take the step
\* (it does not wait for a reader).
C21_BoundedBestEffort ==
    /\ [](Len(errs) <= defaultErrBuffer)
    /\ [][\A c \in Calls :
             (wpc[c] = "send" /\ wpc'[c] # "send") =>
                /\ wpc'[c] = "release"
                /\ sem' = sem
                /\ errs' = IF Len(errs) = defaultErrBuffer
                              THEN errs ELSE Append(errs, c)]_vars
    /\ [][(wpc' # wpc \/ spc' # spc \/ cpc' # cpc) =>
             (errs' = errs \/ \E c \in Calls : errs' = Append(errs, c))]_vars
    /\ [](\A c \in Calls : wpc[c] = "send" => ENABLED WorkerSend(c))

\* nobody read the ten earlier errors, a further job failed and ended, and
\* the buffer still holds exactly the ten earlier errors
C21_Witness ==
    /\ errs = [i \in 1..defaultErrBuffer |-> 0]
    /\ \E c \in Calls :
          outcome[c] = "err" /\ wpc[c] = "done" /\ ~Delivered(c)

\* C22: a Submit that took a slot and then found the closed flag set gives
\* back exactly one slot, returns ErrShutdown and starts no worker; its
\* release never takes the token of a running job or of the drain, and the
\* draining CloseAndWait never completes while a job is running.
C22_RaceRollback ==
    /\ [][\A c \in Calls :
             (spc[c] = "rollback" /\ spc'[c] # "rollback") =>
                /\ closed
                /\ spc'[c] = "done"
                /\ ret'[c] = ErrShutdown
                /\ sem' = sem - 1
                /\ wpc' = wpc]_vars
    /\ [][\A c \in Calls :
             (spc[c] = "recheck" /\ closed /\ spc'[c] # "recheck") =>
                spc'[c] = "rollback"]_vars
    /\ [](\A c \in rolled :
             wpc[c] = "none" /\ outcome[c] = "none" /\ ret[c] = ErrShutdown)
    /\ [](sem >= Cardinality(Running) + DrainTokens)
    /\ [][\A k \in Closers :
             (cpc[k] = "drain" /\ cpc'[k] = "done") => Running = {}]_vars

\* capacity 2: a call rolled back while another call's job was running and
\* the draining CloseAndWait was waiting for it
C22_Witness ==
    /\ \E c \in rolled, d \in Calls : wpc[d] = "run"
    /\ \E k \in drainer : cpc[k] = "drain" /\ ci[k] < Capacity

\* C23: a worker that finds its cancellation fired at its check goes
\* straight to the deferred release: Run is never invoked, nothing is
\* enqueued, the slot is given back, and the Submit that admitted the job
\* had returned nil.
C23_SkippedWhenCancelled ==
    /\ [][\A c \in Calls :
             (wpc[c] = "check" /\ ctxDone[c] /\ wpc'[c] # "check") =>
                /\ wpc'[c] = "release"
                /\ outcome'[c] = "skipped"
                /\ errs' = errs
                /\ sem' = sem]_vars
    /\ [][\A c \in Calls :
             outcome[c] = "skipped" =>
                /\ outcome'[c] = "skipped"
                /\ wpc'[c] \in {"release", "done"}
                /\ (wpc[c] = "release" /\ wpc'[c] = "done") => sem' = sem - 1
               ]_vars
    /\ [](\A c \in Calls :
             outcome[c] = "skipped" =>
                /\ ret[c] = ErrNil
                /\ ~Delivered(c)
                /\ wpc[c] = "release" => sem > 0)

\* a job admitted with nil was skipped and its slot is free again on the
\* open gate
C23_Witness ==
    /\ ~closed
    /\ Capacity = 1
    /\ sem = 0
    /\ \E c \in Calls :
          outcome[c] = "skipped" /\ wpc[c] = "done" /\ ret[c] = ErrNil
\* the order of a worker's events: spawned, cancellation check, Run, send
\* of a non-nil error, deferred release
WorkerOrder ==
    {<<"none", "check">>, <<"check", "run">>, <<"check", "release">>,
     <<"run", "send">>, <<"run", "release">>, <<"send", "release">>,
     <<"release", "done">>}

\* C24: a worker's events follow the order check, Run, send (exactly when
\* Run returned an error), release; a token leaves the semaphore only in
\* the release of a worker that is past Run and past its send (or in a
\* Submit's rollback); and a Submit or the drain takes a slot only while
\* fewer than Capacity workers hold one.
C24_JobEventOrder ==
    /\ [][\A c \in Calls :
             wpc'[c] # wpc[c] => <<wpc[c], wpc'[c]>> \in WorkerOrder]_vars
    /\ [][\A c \in Calls :
             (wpc[c] = "run" /\ wpc'[c] # "run") =>
                (outcome'[c] = "err" <=> wpc'[c] = "send")]_vars
    /\ [][sem' < sem =>
             /\ sem' = sem - 1
             /\ \E c \in Calls :
                    \/ wpc[c] = "release" /\ wpc'[c] = "done"
                    \/ spc[c] = "rollback" /\ spc'[c] = "done"]_vars
    /\ [][sem' > sem => Cardinality(Running) < Capacity]_vars
    /\ [](sem >= Cardinality(Running))

\* capacity 1: a job failed, its error was enqueued, it released the slot,
\* and the slot went to the next call, whose job is now in Run
C24_Witness ==
    /\ Capacity = 1
    /\ \E c, d \in Calls :
          /\ outcome[c] = "err" /\ wpc[c] = "done" /\ Delivered(c)
          /\ wpc[d] = "run"

\* C25: firing the cancellation of a job that is in Run changes neither
\* the worker's position nor the occupancy; a worker leaves Run only when
\* Run returns or panics, still holding its slot; and while a job is in
\* Run the draining CloseAndWait has not got all its tokens and has not
\* closed the stream.
C25_NoForcedTermination ==
    /\ [][\A c \in Calls :
             (wpc[c] = "run" /\ ~ctxDone[c] /\ ctxDone'[c]) =>
                (wpc'[c] = "run" /\ sem' = sem)]_vars
    /\ [][\A c \in Calls :
             (wpc[c] = "run" /\ wpc'[c] # "run") =>
                (outcome'[c] \in Outcomes /\ sem' = sem)]_vars
    /\ [](\A c \in Calls :
             wpc[c] = "run" =>
                /\ sem > 0
                /\ ~errsClosed
                /\ \A k \in drainer : cpc[k] = "drain" /\ ci[k] < Capacity)

\* a job in Run whose cancellation has fired keeps the draining
\* CloseAndWait blocked on the full semaphore
C25_Witness ==
    \E c \in Calls, k \in drainer :
        /\ wpc[c] = "run"
        /\ ctxDone[c]
        /\ cpc[k] = "drain"
        /\ sem = Capacity

\* C26: a call that returned an error has no worker and its Run was never
\* invoked; a worker exists only for a non-nil job whose Submit is
\* returning nil, it is spawned once (by the go statement) and invokes Run
\* at most once; and the error stream holds only errors returned by Run.
C26_RunOnlyIfAdmitted ==
    /\ [](\A c \in Calls :
             ret[c] \in {ErrNilJobSubmitted, ErrShutdown, ErrCtx} =>
                (wpc[c] = "none" /\ outcome[c] = "none"))
    /\ [](\A c \in Calls :
             wpc[c] # "none" => (ret[c] = ErrNil /\ job[c] = "job"))
    /\ [][\A c \in Calls :
             (wpc'[c] = "check" /\ wpc[c] # "check") =>
                (wpc[c] = "none" /\ spc[c] = "spawn")]_vars
    /\ [][\A c \in Calls :
             (wpc'[c] = "run" /\ wpc[c] # "run") => wpc[c] = "check"]_vars
    /\ [](\A x \in Range(errs) \cup got :
             x = 0 \/ (outcome[x] = "err" /\ ret[x] = ErrNil))

\* one call rolled back with ErrShutdown; the other was admitted, failed,
\* and its error is the only one of the two in the stream
C26_Witness ==
    \E c, d \in Calls :
        /\ c \in rolled /\ ret[c] = ErrShutdown
        /\ ret[d] = ErrNil /\ outcome[d] = "err" /\ Delivered(d)

\* the draining CloseAndWait has returned
DrainReturned == \E k \in drainer : cpc[k] = "done"

C30_TokenAccounting ==
    /\ sem = Cardinality(Running) + DrainTokens + Cardinality(Admitting)
    /\ sem <= Capacity
    /\ \A k \in drainer :
          /\ ci[k] = Capacity => (Running = {} /\ Admitting = {})
          /\ (cpc[k] = "drain" /\ ci[k] < Capacity
                 /\ Running = {} /\ Admitting = {}) => ENABLED CWAcquire(k)

\* capacity 2, full: one token of a running job and one placed by the
\* drain, which waits for the job
C30_Witness ==
    /\ Capacity = 2
    /\ sem = 2
    /\ DrainTokens = 1
    /\ Cardinality(Running) = 1
    /\ \E c \in rolled : spc[c] = "done"
\* the Backoff was made by New and only Next has been called on it
OnlyNext == \A i \in 1..Len(hist) : hist[i] = "Next"

\* the step is a call of Next
NextCalled == hist' = Append(hist, "Next")

\* min over the integers
MinOf(a, b) == IF a <= b THEN a ELSE b

\* C28: for a Backoff made by New(initial, max, seed) with
\* 2 <= initial <= max, every call of Next in a sequence of Next calls
\* returns a duration d with 0 <= d <= max and c/2 <= d < c, where c is
\* current before the call.
C28_NextInRange ==
    [][(2 <= initial /\ initial <= max /\ OnlyNext /\ NextCalled) =>
          /\ bpc' = "returned"
          /\ 0 <= sleep' /\ sleep' <= max
          /\ Quo(current, 2) <= sleep' /\ sleep' < current]_vars

\* C29: New leaves current == initial and max as given; each Next that
\* returns sets current to min(2 * current, max), so that current <= max,
\* and leaves max alone; Reset changes current only.
C29_BackoffState ==
    /\ [](hist = <<>> => current = initial)
    /\ [][(NextCalled /\ bpc' = "returned") =>
             /\ current' = MinOf(2 * current, max)
             /\ current' <= max
             /\ max' = max]_vars
    /\ [][hist' = Append(hist, "Reset") =>
             (max' = max /\ sleep' = sleep /\ current' \in ResetInputs)]_vars
====
